---- MODULE Spec2Model ----
(***************************************************************************)
(* panopticon-tui: the fetch worker, the input-polling thread and the      *)
(* controller loop of src/main.rs, with the tab state (fiber list,         *)
(* selection, scroll, rolling metric windows) of src/ui/app.rs.            *)
(*                                                                         *)
(* Three specifications share the variables:                               *)
(*   Spec        the three threads and the two channels of main.rs;        *)
(*   SpecWindow  the three rolling windows under any number of appends;    *)
(*   SpecNav     the main loop under any sequence of navigation keys and   *)
(*               full fiber dumps.                                         *)
(***************************************************************************)
EXTENDS Integers, Sequences, FiniteSets, TLC

VARIABLES
    cli,          \* which sources the command line configures
    fetcher,      \* result of Fetcher::new in the fetcher thread
    worker,       \* the fetcher thread's position and current request
    rxf,          \* channel (txf, rxf): FetcherRequest values in flight
    rx,           \* channel (tx, rx): Event values in flight
    input,        \* the input thread's position and what it has emitted
    main_pc,      \* the main loop: "loop", "exited" or "panicked"
    should_quit,  \* App.should_quit
    exit_reason,  \* App.exit_reason
    tabs,         \* App.tabs (TabsState: tabs, index)
    zmx,          \* App.zmx (ZMXTab), Some exactly when cli.zio_zmx
    slick,        \* App.slick (SlickTab), Some exactly when cli.jmx
    actor_tree,   \* App.actor_tree, Some exactly when cli.akka
    received,     \* history: requests the fetcher thread has taken, by kind
    responded,    \* history: responses the fetcher thread has sent, by variant
    appended      \* history: number of appends made to each window

appVars == <<should_quit, exit_reason, tabs, zmx, slick, actor_tree>>
threadVars == <<cli, fetcher, worker, rxf, rx, input, received, responded>>
vars == <<threadVars, main_pc, appVars,
                    appended>>

(***************************************************************************)
(* Bounds of the model.                                                    *)
(***************************************************************************)
\* events (keys and ticks) the input thread emits in one run of Spec
MaxEvents == 2
\* appends past max_size that SpecWindow makes to each window
ExtraAppends == 3
\* The number of fibers of the forests SpecTree renders.
MaxFibers == 3

(***************************************************************************)
(* Program constants.                                                      *)
(***************************************************************************)
MAX_FIBER_COUNT_MEASURES == 100
MAX_SLICK_MEASURES == 25
MAX_HIKARI_MEASURES == 100
\* the width of u16 (as u16 in prepare_dump)
U16 == 65536

(***************************************************************************)
(* Data.                                                                   *)
(***************************************************************************)
None == {}
Some(x) == {x}
Unwrap(o) == CHOOSE x \in o : TRUE

\* A text is a sequence of characters; "NL" stands for the line feed.
NL == "NL"

Fiber(id, parent_id, status, dump) ==
    [id |-> id, parent_id |-> parent_id, status |-> status, dump |-> dump]

\* The fibers of the test zmx_tab_dumps_fibers.
FixtureDump ==
    << Fiber(1, None, "Running", <<"1">>),
       Fiber(2, Some(1), "Suspended", <<"2">>),
       Fiber(4, None, "Done", <<"4">>) >>

\* A dump whose texts have several lines, with a fiber whose parent is absent.
LongDump ==
    << Fiber(7, None, "Suspended", <<"a", NL, "b", NL, "c">>),
       Fiber(8, Some(3), "Finishing", <<"d", NL>>) >>

\* A dump of a process with no fibers.
EmptyDump == << >>

FiberDumps == {FixtureDump, LongDump, EmptyDump}

\* A chain of six fibers, each the child of the one before.
DeepDump ==
    <<Fiber(1, None, "Running", <<"1">>), Fiber(2, Some(1), "Running", <<"2">>),
      Fiber(3, Some(2), "Running", <<"3">>), Fiber(4, Some(3), "Suspended", <<"4">>),
      Fiber(5, Some(4), "Suspended", <<"5">>), Fiber(6, Some(5), "Done", <<"6">>)>>

\* The fibers 1..MaxFibers, any of them, in any order, each with no parent,
\* a parent among them or a parent that is not in the dump (MaxFibers + 1).
FiberIds == 1..MaxFibers
ParentIds == {None} \cup {Some(q) : q \in 1..(MaxFibers + 1)}
IdText(id) == <<"1", "2", "3", "4", "5", "6", "7", "8", "9">>[id]
StatusOf(id) == <<"Running", "Suspended", "Done", "Finishing">>[(id % 4) + 1]

Orders ==
    {o \in UNION {[1..n -> FiberIds] : n \in 0..MaxFibers} :
        \A i, j \in DOMAIN o : i # j => o[i] # o[j]}

\* The position in fd of the parent of the fiber at position i, 0 without.
ParentPos(fd, i) ==
    IF \E j \in DOMAIN fd : fd[i].parent_id = Some(fd[j].id)
    THEN CHOOSE j \in DOMAIN fd : fd[i].parent_id = Some(fd[j].id)
    ELSE 0

\* The n-th ancestor position of the fiber at position i, 0 beyond the root.
RECURSIVE Ancestor(_, _, _)
Ancestor(fd, i, n) ==
    IF i = 0 \/ n = 0 THEN i ELSE Ancestor(fd, ParentPos(fd, i), n - 1)

\* No fiber is its own ancestor.
Acyclic(fd) == \A i \in DOMAIN fd : Ancestor(fd, i, Len(fd)) = 0

Forests ==
    {fd \in {[i \in DOMAIN o |-> Fiber(o[i], par[o[i]], StatusOf(o[i]), <<IdText(o[i])>>)] :
                o \in Orders, par \in [FiberIds -> ParentIds]} : Acyclic(fd)}
    \cup {FixtureDump, LongDump, DeepDump}

\* The dumps the zmx source of Spec returns.
FetchedDumps == {FixtureDump}

\* Errors a data source or the construction of the fetcher may return.
ConstructionErrors == {"jmx unreachable", "bad zmx address"}
FetchErrors == {"fetch failed"}

RequestKinds ==
    {"FiberDump", "RegularFiberDump", "HikariMetrics", "SlickMetrics",
     "SlickConfig", "ActorTree", "ActorCount"}

ResponseKinds == RequestKinds \cup {"FatalFailure"}

Ok(x) == [ok |-> TRUE, value |-> x]
Err(e) == [ok |-> FALSE, value |-> e]

\* The outcome of a method: the state it leaves, and whether it panicked.
Done(s) == [panic |-> FALSE, state |-> s]
Panic(s) == [panic |-> TRUE, state |-> s]

(***************************************************************************)
(* Rolling windows (VecDeque): pop_front when the length exceeds the       *)
(* maximum, then push_back.                                                *)
(***************************************************************************)
append_fiber_count(tab, c) ==
    LET kept == IF Len(tab.fiber_counts) > MAX_FIBER_COUNT_MEASURES
                THEN Tail(tab.fiber_counts) ELSE tab.fiber_counts
    IN  [tab EXCEPT !.fiber_counts = Append(kept, c)]

\* Mutant: the newest retained sample is evicted instead of the oldest.
append_slick_metrics_pop_back(tab, m) ==
    LET kept == IF Len(tab.slick_metrics) > MAX_SLICK_MEASURES
                THEN SubSeq(tab.slick_metrics, 1, Len(tab.slick_metrics) - 1)
                ELSE tab.slick_metrics
    IN  [tab EXCEPT !.slick_metrics = Append(kept, m)]

\* Mutant: eviction as soon as the length reaches the maximum.
append_slick_metrics_at_max(tab, m) ==
    LET kept == IF Len(tab.slick_metrics) >= MAX_SLICK_MEASURES
                THEN Tail(tab.slick_metrics) ELSE tab.slick_metrics
    IN  [tab EXCEPT !.slick_metrics = Append(kept, m)]

append_slick_metrics(tab, m) ==
    LET kept == IF Len(tab.slick_metrics) > MAX_SLICK_MEASURES
                THEN Tail(tab.slick_metrics) ELSE tab.slick_metrics
    IN  [tab EXCEPT !.slick_metrics = Append(kept, m)]

append_hikari_metrics(tab, m) ==
    LET kept == IF Len(tab.hikari_metrics) > MAX_HIKARI_MEASURES
                THEN Tail(tab.hikari_metrics) ELSE tab.hikari_metrics
    IN  [tab EXCEPT !.hikari_metrics = Append(kept, m)]

(***************************************************************************)
(* ListState.  Rust indexes from 0: item n of a Vec is element n + 1 of    *)
(* the sequence.                                                           *)
(***************************************************************************)
ListState_new(items) == [items |-> items, selected |-> 0]

select_previous(list) ==
    IF list.selected > 0 THEN [list EXCEPT !.selected = @ - 1] ELSE list

\* Mutant: the selection moves down without the comparison with the length.
select_next_unclamped(list, overflow_checks) ==
    Done([list EXCEPT !.selected = @ + 1])

\* self.items.len() - 1 is a usize subtraction.  On an empty list it
\* panics in a build with overflow checks; without them it wraps to
\* usize::MAX, which every index is below.
select_next(list, overflow_checks) ==
    IF Len(list.items) = 0
    THEN IF overflow_checks
         THEN Panic(list)
         ELSE Done([list EXCEPT !.selected = @ + 1])
    ELSE IF list.selected < Len(list.items) - 1
         THEN Done([list EXCEPT !.selected = @ + 1])
         ELSE Done(list)

(***************************************************************************)
(* ZMXTab.                                                                 *)
(***************************************************************************)
\* str::lines: the pieces between line feeds; a final line feed ends the
\* last line and opens no new one.
RECURSIVE CountNL(_)
CountNL(s) ==
    IF s = << >> THEN 0
    ELSE (IF Head(s) = NL THEN 1 ELSE 0) + CountNL(Tail(s))

LineCount(s) ==
    IF s = << >> THEN 0
    ELSE CountNL(s) + (IF s[Len(s)] = NL THEN 0 ELSE 1)

prepare_dump(s) == <<s, LineCount(s) % U16>>

ZMXTab_new ==
    [fibers |-> ListState_new(<< >>),
     selected_fiber_dump |-> <<<< >>, 1>>,
     fiber_dump_all |-> << >>,
     scroll |-> 0,
     fiber_counts |-> << >>]

on_fiber_change(tab) ==
    LET n == tab.fibers.selected IN
    IF n >= Len(tab.fiber_dump_all)
    THEN Panic(tab)
    ELSE Done([tab EXCEPT
                 !.selected_fiber_dump = prepare_dump(tab.fiber_dump_all[n + 1]),
                 !.scroll = 0])

select_prev_fiber(tab) ==
    on_fiber_change([tab EXCEPT !.fibers = select_previous(@)])

select_next_fiber(tab, overflow_checks) ==
    LET r == select_next(tab.fibers, overflow_checks) IN
    IF r.panic
    THEN Panic(tab)
    ELSE on_fiber_change([tab EXCEPT !.fibers = r.state])

scroll_up(tab) ==
    IF tab.scroll > 0 THEN [tab EXCEPT !.scroll = @ - 1] ELSE tab

scroll_down(tab) ==
    IF tab.scroll < tab.selected_fiber_dump[2]
    THEN [tab EXCEPT !.scroll = @ + 1] ELSE tab

(***************************************************************************)
(* formatter::printable_tree, after section 4.2 of the specification: the  *)
(* fibers in pre-order, each with its line.  A line is a sequence of       *)
(* character cells followed by the status label; "+" "-" "|" "L" stand for *)
(* the box-drawing characters of a branch, a dash, a bar and a corner.     *)
(***************************************************************************)
LABEL_WIDTH == 13

Ids(fd) == {fd[i].id : i \in DOMAIN fd}

Roots(fd) ==
    LET IsRoot(f) == f.parent_id = None \/ Unwrap(f.parent_id) \notin Ids(fd)
    IN  SelectSeq(fd, IsRoot)

Children(fd, id) ==
    LET IsChild(f) == f.parent_id = Some(id) IN SelectSeq(fd, IsChild)

RECURSIVE Digits(_)
Digits(n) ==
    LET d == <<"0", "1", "2", "3", "4", "5", "6", "7", "8", "9">>[(n % 10) + 1]
    IN  IF n < 10 THEN <<d>> ELSE Digits(n \div 10) \o <<d>>

RECURSIVE Spaces(_)
Spaces(n) == IF n <= 0 THEN << >> ELSE <<" ">> \o Spaces(n - 1)

PadRight(cells, width) == cells \o Spaces(width - Len(cells))

RECURSIVE Walk(_, _, _, _)
Walk(fd, level, k, prefix) ==
    IF k > Len(level) THEN << >>
    ELSE LET f == level[k]
             is_last == k = Len(level)
             own == IF is_last THEN <<"L", "-">> ELSE <<"+", "-">>
             below == IF is_last THEN <<" ", " ">> ELSE <<"|", " ">>
             line == PadRight(prefix \o own \o <<"#">> \o Digits(f.id),
                              LABEL_WIDTH) \o <<f.status>>
         IN  <<[label |-> line, fiber |-> f]>>
             \o Walk(fd, Children(fd, f.id), 1, prefix \o below)
             \o Walk(fd, level, k + 1, prefix)

printable_tree(fd) == Walk(fd, Roots(fd), 1, << >>)

\* Mutant: the dump texts are taken in the order of the fetched dump.
dump_fibers_input_order(tab, fd) ==
    LET list == printable_tree(fd)
        fib_labels == [i \in DOMAIN list |-> list[i].label]
        fib_dumps == [i \in DOMAIN fd |-> fd[i].dump]
        cleared == [tab EXCEPT !.fibers = [items |-> fib_labels, selected |-> 0]]
    IN  IF Len(fib_dumps) = 0
        THEN Panic(cleared)
        ELSE Done([cleared EXCEPT
                     !.selected_fiber_dump = prepare_dump(fib_dumps[1]),
                     !.fiber_dump_all = fib_dumps])

\* ZMXTab::dump_fibers on the fetched dump fd.  fib_dumps[0] panics on an
\* empty dump, after the list was cleared and the selection reset.
dump_fibers(tab, fd) ==
    LET list == printable_tree(fd)
        fib_labels == [i \in DOMAIN list |-> list[i].label]
        fib_dumps == [i \in DOMAIN list |-> list[i].fiber.dump]
        cleared == [tab EXCEPT !.fibers = [items |-> fib_labels, selected |-> 0]]
    IN  IF Len(fib_dumps) = 0
        THEN Panic(cleared)
        ELSE Done([cleared EXCEPT
                     !.selected_fiber_dump = prepare_dump(fib_dumps[1]),
                     !.fiber_dump_all = fib_dumps])

\* The loop of ZMXTab::tick over the fetched dump fd.
CountStatus(fd, status) == Cardinality({i \in DOMAIN fd : fd[i].status = status})

FiberCount(fd) ==
    [done |-> CountStatus(fd, "Done"),
     suspended |-> CountStatus(fd, "Suspended"),
     running |-> CountStatus(fd, "Running"),
     finishing |-> CountStatus(fd, "Finishing")]

ZMXTab_tick(tab, fd) == append_fiber_count(tab, FiberCount(fd))

(***************************************************************************)
(* SlickTab and the actor monitor.                                         *)
(***************************************************************************)
SlickMetrics(n) == [queue_size |-> n, thread_count |-> n]
SlickMetrics_ZERO == SlickMetrics(0)
HikariMetrics(n) == [total |-> n]
SlickConfig(q, t) == [max_queue_size |-> q, max_threads |-> t]

SlickTab_new ==
    [has_hikari |-> FALSE,
     slick_error |-> None,
     slick_metrics |-> << >>,
     slick_config |-> SlickConfig(0, 0),
     hikari_metrics |-> << >>]

\* The Ok branch of SlickTab::initialize, on the fetched configuration.
replace_slick_config(tab, config) ==
    [tab EXCEPT !.slick_error = None,
                !.slick_config = config,
                !.slick_metrics = [i \in 1..MAX_SLICK_MEASURES |-> SlickMetrics_ZERO]]

ActorTree_new == [tree |-> << >>, actor_counts |-> << >>]
update_actor_tree(tab, tree) == [tab EXCEPT !.tree = tree]
append_actor_count(tab, c) == [tab EXCEPT !.actor_counts = Append(@, c)]

(***************************************************************************)
(* TabsState and App.  The application state is passed to the methods as   *)
(* the record app of the variables that hold it.                           *)
(***************************************************************************)
TabsState_new(kinds) == [tabs |-> kinds, index |-> 0]
TabsState_next(t) == [t EXCEPT !.index = (@ + 1) % Len(t.tabs)]
\* Mutant: previous stops at the first tab.
TabsState_previous_clamped(t) ==
    IF t.index > 0 THEN [t EXCEPT !.index = @ - 1] ELSE t

TabsState_previous(t) ==
    IF t.index > 0 THEN [t EXCEPT !.index = @ - 1]
    ELSE [t EXCEPT !.index = Len(t.tabs) - 1]
current(t) == t.tabs[t.index + 1]

App_new(c) ==
    [should_quit |-> FALSE,
     exit_reason |-> None,
     tabs |-> TabsState_new(
                 (IF c.zio_zmx THEN <<"ZMX">> ELSE << >>)
                 \o (IF c.jmx THEN <<"Slick">> ELSE << >>)
                 \o (IF c.akka THEN <<"AkkaActorTree">> ELSE << >>)),
     zmx |-> ZMXTab_new,
     slick |-> SlickTab_new,
     actor_tree |-> ActorTree_new]

app ==
    [should_quit |-> should_quit, exit_reason |-> exit_reason, tabs |-> tabs,
     zmx |-> zmx, slick |-> slick, actor_tree |-> actor_tree]

quit(a, e) == [a EXCEPT !.should_quit = TRUE, !.exit_reason = e]

\* A method of a tab lifted to App: the outcome r of the tab's method.
WithZmx(a, r) == [panic |-> r.panic, state |-> [a EXCEPT !.zmx = r.state]]

on_up(a) ==
    IF current(a.tabs) = "ZMX" THEN WithZmx(a, select_prev_fiber(a.zmx))
    ELSE Done(a)

on_down(a, overflow_checks) ==
    IF current(a.tabs) = "ZMX"
    THEN WithZmx(a, select_next_fiber(a.zmx, overflow_checks))
    ELSE Done(a)

on_right(a) == [a EXCEPT !.tabs = TabsState_next(@)]
on_left(a) == [a EXCEPT !.tabs = TabsState_previous(@)]

on_key(a, c) == IF c = "q" THEN [a EXCEPT !.should_quit = TRUE] ELSE a

on_page_up(a) ==
    IF current(a.tabs) = "ZMX" THEN [a EXCEPT !.zmx = scroll_up(@)] ELSE a

on_page_down(a) ==
    IF current(a.tabs) = "ZMX" THEN [a EXCEPT !.zmx = scroll_down(@)] ELSE a

(***************************************************************************)
(* Messages.                                                               *)
(***************************************************************************)
Input(code) == [type |-> "Input", code |-> code]
Tick == [type |-> "Tick"]
FetcherResponse(r) == [type |-> "FetcherResponse", r |-> r]

\* A FetcherResponse variant with the Result it carries.
Response(kind, d) == [kind |-> kind, d |-> d]
FatalFailure(e) == [kind |-> "FatalFailure", d |-> Err(e)]

KeyCodes ==
    {"q", "c", "Left", "Up", "Right", "Down", "PageUp", "PageDown", "Enter",
     "Esc"}

\* The keys pressed in Spec; SpecNav presses the navigation keys.
PolledKeys == {"q", "Right", "Down", "Enter"}

\* What one iteration of the main loop did: the application state it leaves,
\* the requests it sent on txf, whether it panicked, whether it broke out.
Step(a, sends, brk) == [panic |-> FALSE, state |-> a, sends |-> sends, brk |-> brk]
FromOutcome(r) == [panic |-> r.panic, state |-> r.state, sends |-> << >>, brk |-> FALSE]

(***************************************************************************)
(* The main loop of main.rs, one operator per arm of match rx.recv().    *)
(***************************************************************************)
\* Mutant: Enter on the pool tab asks for the pool configuration again.
handle_input_enter_reconnects(a, code, overflow_checks) ==
    CASE code = "q" -> Step(a, << >>, TRUE)
      [] code = "c" -> Step(on_key(a, code), << >>, FALSE)
      [] code = "Left" -> Step(on_left(a), << >>, FALSE)
      [] code = "Up" -> FromOutcome(on_up(a))
      [] code = "Right" -> Step(on_right(a), << >>, FALSE)
      [] code = "Down" -> FromOutcome(on_down(a, overflow_checks))
      [] code = "PageUp" -> Step(on_page_up(a), << >>, FALSE)
      [] code = "PageDown" -> Step(on_page_down(a), << >>, FALSE)
      [] code = "Enter" ->
            ( CASE current(a.tabs) = "ZMX" -> Step(a, <<"FiberDump">>, FALSE)
                [] current(a.tabs) = "Slick" -> Step(a, <<"SlickConfig">>, FALSE)
                [] current(a.tabs) = "AkkaActorTree" ->
                      Step(a, <<"ActorTree">>, FALSE) )
      [] OTHER -> Step(a, << >>, FALSE)

handle_input(a, code, overflow_checks) ==
    CASE code = "q" -> Step(a, << >>, TRUE)
      [] code = "c" -> Step(on_key(a, code), << >>, FALSE)
      [] code = "Left" -> Step(on_left(a), << >>, FALSE)
      [] code = "Up" -> FromOutcome(on_up(a))
      [] code = "Right" -> Step(on_right(a), << >>, FALSE)
      [] code = "Down" -> FromOutcome(on_down(a, overflow_checks))
      [] code = "PageUp" -> Step(on_page_up(a), << >>, FALSE)
      [] code = "PageDown" -> Step(on_page_down(a), << >>, FALSE)
      [] code = "Enter" ->
            ( CASE current(a.tabs) = "ZMX" -> Step(a, <<"FiberDump">>, FALSE)
                [] current(a.tabs) = "Slick" -> Step(a, << >>, FALSE)
                [] current(a.tabs) = "AkkaActorTree" ->
                      Step(a, <<"ActorTree">>, FALSE) )
      [] OTHER -> Step(a, << >>, FALSE)

\* FetcherResponse::FatalFailure(e) => app.quit(Some(e)).
response_FatalFailure(a, d) == Step(quit(a, Some(d.value)), << >>, FALSE)

response_FiberDump(a, d) ==
    IF ~d.ok THEN Step(quit(a, Some(d.value)), << >>, FALSE)
    ELSE FromOutcome(WithZmx(a, dump_fibers(a.zmx, d.value)))

response_RegularFiberDump(a, d) ==
    IF ~d.ok THEN Step(quit(a, Some(d.value)), << >>, FALSE)
    ELSE Step([a EXCEPT !.zmx = ZMXTab_tick(@, d.value)], << >>, FALSE)

\* Mutant: a failed Hikari fetch ends the session like the other failures.
response_HikariMetrics_fatal(a, d) ==
    IF ~d.ok THEN Step(quit(a, Some(d.value)), << >>, FALSE)
    ELSE Step([a EXCEPT !.slick =
                  append_hikari_metrics([@ EXCEPT !.has_hikari = TRUE], d.value)],
              << >>, FALSE)

response_HikariMetrics(a, d) ==
    IF ~d.ok THEN Step([a EXCEPT !.slick.has_hikari = FALSE], << >>, FALSE)
    ELSE Step([a EXCEPT !.slick =
                  append_hikari_metrics([@ EXCEPT !.has_hikari = TRUE], d.value)],
              << >>, FALSE)

\* Mutant: a failed Slick fetch is skipped and the session goes on.
response_SlickMetrics_lenient(a, d) ==
    IF ~d.ok THEN Step(a, << >>, FALSE)
    ELSE Step([a EXCEPT !.slick = append_slick_metrics(@, d.value)], << >>, FALSE)

response_SlickMetrics(a, d) ==
    IF ~d.ok THEN Step(quit(a, Some(d.value)), << >>, FALSE)
    ELSE Step([a EXCEPT !.slick = append_slick_metrics(@, d.value)], << >>, FALSE)

response_SlickConfig(a, d) ==
    IF ~d.ok THEN Step(quit(a, Some(d.value)), << >>, FALSE)
    ELSE Step([a EXCEPT !.slick = replace_slick_config(@, d.value)], << >>, FALSE)

response_ActorTree(a, d) ==
    IF ~d.ok THEN Step(quit(a, Some(d.value)), << >>, FALSE)
    ELSE Step([a EXCEPT !.actor_tree = update_actor_tree(@, d.value)], << >>, FALSE)

response_ActorCount(a, d) ==
    IF ~d.ok THEN Step(quit(a, Some(d.value)), << >>, FALSE)
    ELSE Step([a EXCEPT !.actor_tree = append_actor_count(@, d.value)], << >>, FALSE)

handle_response(a, r) ==
    CASE r.kind = "FatalFailure" -> response_FatalFailure(a, r.d)
      [] r.kind = "FiberDump" -> response_FiberDump(a, r.d)
      [] r.kind = "RegularFiberDump" -> response_RegularFiberDump(a, r.d)
      [] r.kind = "HikariMetrics" -> response_HikariMetrics(a, r.d)
      [] r.kind = "SlickMetrics" -> response_SlickMetrics(a, r.d)
      [] r.kind = "SlickConfig" -> response_SlickConfig(a, r.d)
      [] r.kind = "ActorTree" -> response_ActorTree(a, r.d)
      [] r.kind = "ActorCount" -> response_ActorCount(a, r.d)

\* Mutant: the Hikari metrics are requested whatever has_hikari says.
handle_tick_always_hikari(a, c) ==
    Step(a,
         (IF c.zio_zmx THEN <<"RegularFiberDump">> ELSE << >>)
         \o (IF c.jmx THEN <<"SlickMetrics", "HikariMetrics">> ELSE << >>)
         \o (IF c.akka THEN <<"ActorCount">> ELSE << >>),
         FALSE)

\* Mutant: the Hikari metrics are requested while has_hikari is false.
handle_tick_reprobes(a, c) ==
    Step(a,
         (IF c.zio_zmx THEN <<"RegularFiberDump">> ELSE << >>)
         \o (IF c.jmx
             THEN <<"SlickMetrics">>
                  \o (IF ~a.slick.has_hikari THEN <<"HikariMetrics">> ELSE << >>)
             ELSE << >>)
         \o (IF c.akka THEN <<"ActorCount">> ELSE << >>),
         FALSE)

handle_tick(a, c) ==
    Step(a,
         (IF c.zio_zmx THEN <<"RegularFiberDump">> ELSE << >>)
         \o (IF c.jmx
             THEN <<"SlickMetrics">>
                  \o (IF a.slick.has_hikari THEN <<"HikariMetrics">> ELSE << >>)
             ELSE << >>)
         \o (IF c.akka THEN <<"ActorCount">> ELSE << >>),
         FALSE)

\* The end of an iteration: 'q' breaks, a panic ends the thread, and
\* otherwise if app.should_quit { break }.
\* Mutant: the quit flag is not looked at after the event.
next_pc_ignores_flag(step) ==
    IF step.panic THEN "panicked"
    ELSE IF step.brk THEN "exited"
    ELSE "loop"

next_pc(step) ==
    IF step.panic THEN "panicked"
    ELSE IF step.brk \/ step.state.should_quit THEN "exited"
    ELSE "loop"

\* The windows a response is appended to, for the history variable.
Appends(r) ==
    [w \in DOMAIN appended |->
        IF r.d.ok /\ ( \/ w = "fiber_counts" /\ r.kind = "RegularFiberDump"
                       \/ w = "slick_metrics" /\ r.kind = "SlickMetrics"
                       \/ w = "hikari_metrics" /\ r.kind = "HikariMetrics" )
        THEN appended[w] + 1 ELSE appended[w]]

Commit(step) ==
    /\ should_quit' = step.state.should_quit
    /\ exit_reason' = step.state.exit_reason
    /\ tabs' = step.state.tabs
    /\ zmx' = step.state.zmx
    /\ slick' = step.state.slick
    /\ actor_tree' = step.state.actor_tree
    /\ rxf' = rxf \o step.sends
    /\ main_pc' = next_pc(step)
    /\ rx' = Tail(rx)
    /\ UNCHANGED <<cli, fetcher, worker, input, received, responded>>

MainInput ==
    /\ main_pc = "loop"
    /\ rx # << >>
    /\ Head(rx).type = "Input"
    /\ \E overflow_checks \in BOOLEAN :
          \E step \in {handle_input(app, Head(rx).code, overflow_checks)} :
              Commit(step)
    /\ UNCHANGED appended

MainResponse ==
    /\ main_pc = "loop"
    /\ rx # << >>
    /\ Head(rx).type = "FetcherResponse"
    /\ \E step \in {handle_response(app, Head(rx).r)} : Commit(step)
    /\ appended' = Appends(Head(rx).r)

\* Mutant: the tick is handled only once the fetcher thread is ready to take
\* the requests (a send that waits for the receiver).
MainTick_waits ==
    /\ main_pc = "loop"
    /\ rx # << >>
    /\ Head(rx).type = "Tick"
    /\ rxf = << >>
    /\ worker.pc = "recv"
    /\ \E step \in {handle_tick(app, cli)} : Commit(step)
    /\ UNCHANGED appended

MainTick ==
    /\ main_pc = "loop"
    /\ rx # << >>
    /\ Head(rx).type = "Tick"
    /\ \E step \in {handle_tick(app, cli)} : Commit(step)
    /\ UNCHANGED appended

(***************************************************************************)
(* The fetcher thread.                                                     *)
(***************************************************************************)
\* The number of responses sent so far.
RECURSIVE Sum(_, _)
Sum(f, S) ==
    IF S = {} THEN 0
    ELSE LET x == CHOOSE x \in S : TRUE IN f[x] + Sum(f, S \ {x})

Sent(counts) == Sum(counts, DOMAIN counts)

\* What a call of the fetcher for a request may return; n tags the sample.
Results(req, n) ==
    {Err(e) : e \in FetchErrors} \cup
    CASE req \in {"FiberDump", "RegularFiberDump"} -> {Ok(fd) : fd \in FetchedDumps}
      [] req = "HikariMetrics" -> {Ok(HikariMetrics(n))}
      [] req = "SlickMetrics" -> {Ok(SlickMetrics(n))}
      [] req = "SlickConfig" -> {Ok(SlickConfig(1000, 20))}
      [] req = "ActorTree" -> {Ok(<<"user", "system">>)}
      [] req = "ActorCount" -> {Ok(n)}

\* Mutant: a recurring dump is answered as a full dump.
respond_ok_confused(req, d) ==
    Response(IF req = "RegularFiberDump" THEN "FiberDump" ELSE req, d)

\* The arms of match rxf.recv().unwrap() in the Ok branch.
respond_ok(req, d) == Response(req, d)

\* Mutant: the failure is reported in the variant of the request.
respond_err_by_kind(e, req) == Response(req, Err(e))

\* The body of the loop in the Err(e) branch.
respond_err(e, req) == FatalFailure(e)

\* thread::spawn: Fetcher::new, once, succeeding or failing with an error.
FetcherNew ==
    /\ main_pc = "loop"
    /\ worker.pc = "new"
    /\ \E outcome \in {Ok("fetcher")} \cup {Err(e) : e \in ConstructionErrors} :
          fetcher' = [result |-> Some(outcome),
                      constructions |-> fetcher.constructions + 1]
    /\ worker' = [pc |-> "recv", req |-> "none"]
    /\ UNCHANGED <<cli, rxf, rx, input, received, responded, main_pc, appVars,
                    appended>>

\* Mutant: the fetcher thread takes the newest request.
WorkerRecv_newest ==
    /\ main_pc = "loop"
    /\ worker.pc = "recv"
    /\ rxf # << >>
    /\ worker' = [pc |-> "respond", req |-> rxf[Len(rxf)]]
    /\ rxf' = SubSeq(rxf, 1, Len(rxf) - 1)
    /\ received' = [received EXCEPT ![rxf[Len(rxf)]] = @ + 1]
    /\ UNCHANGED <<cli, fetcher, rx, input, responded, main_pc, appVars,
                   appended>>

\* rxf.recv().unwrap() returns the oldest request.
WorkerRecv ==
    /\ main_pc = "loop"
    /\ worker.pc = "recv"
    /\ rxf # << >>
    /\ worker' = [pc |-> "respond", req |-> Head(rxf)]
    /\ rxf' = Tail(rxf)
    /\ received' = [received EXCEPT ![Head(rxf)] = @ + 1]
    /\ UNCHANGED <<cli, fetcher, rx, input, responded, main_pc, appVars,
                   
                   appended>>

\* Mutant: the fetcher thread raises the quit flag itself on a failure.
Respond_sets_flag(r) ==
    /\ rx' = Append(rx, FetcherResponse(r))
    /\ responded' = [responded EXCEPT ![r.kind] = @ + 1]
    /\ worker' = [pc |-> "recv", req |-> "none"]
    /\ should_quit' = ~r.d.ok
    /\ UNCHANGED <<cli, fetcher, rxf, input, received, main_pc, exit_reason,
                   tabs, zmx, slick, actor_tree, appended>>

Respond(r) ==
    /\ rx' = Append(rx, FetcherResponse(r))
    /\ responded' = [responded EXCEPT ![r.kind] = @ + 1]
    /\ worker' = [pc |-> "recv", req |-> "none"]
    /\ UNCHANGED <<cli, fetcher, rxf, input, received, main_pc, appVars,
                   
                   appended>>

\* Ok(fetcher): the call of the fetcher returns and the response is sent.
WorkerRespondOk ==
    /\ main_pc = "loop"
    /\ worker.pc = "respond"
    /\ Unwrap(fetcher.result).ok
    /\ \E d \in Results(worker.req, Sent(responded) + 1) :
          Respond(respond_ok(worker.req, d))

\* Err(e): respond(FetcherResponse::FatalFailure(e.to_owned())).
WorkerRespondErr ==
    /\ main_pc = "loop"
    /\ worker.pc = "respond"
    /\ ~Unwrap(fetcher.result).ok
    /\ Respond(respond_err(Unwrap(fetcher.result).value, worker.req))

(***************************************************************************)
(* The input thread.                                                       *)
(***************************************************************************)
\* Mutant: the first metrics are requested before the configuration.
StartupRequests_metrics_first(c) ==
    IF c.jmx THEN <<"SlickMetrics", "HikariMetrics", "SlickConfig">> ELSE << >>

StartupRequests(c) ==
    IF c.jmx THEN <<"SlickConfig", "HikariMetrics", "SlickMetrics">> ELSE << >>

\* One txf.send of the start-up block.
InputStartup ==
    /\ main_pc = "loop"
    /\ input.startup # << >>
    /\ rxf' = Append(rxf, Head(input.startup))
    /\ input' = [input EXCEPT !.startup = Tail(@)]
    /\ UNCHANGED <<cli, fetcher, worker, rx, received, responded, main_pc,
                   appVars,
                    appended>>

\* event::poll returned a key event in time.
InputKey ==
    /\ main_pc = "loop"
    /\ input.startup = << >>
    /\ input.keys + input.ticks < MaxEvents
    /\ \E code \in PolledKeys : rx' = Append(rx, Input(code))
    /\ input' = [input EXCEPT !.keys = @ + 1]
    /\ UNCHANGED <<cli, fetcher, worker, rxf, received, responded, main_pc,
                   appVars,
                    appended>>

\* last_tick.elapsed() >= tick_rate.
InputTick ==
    /\ main_pc = "loop"
    /\ input.startup = << >>
    /\ input.keys + input.ticks < MaxEvents
    /\ rx' = Append(rx, Tick)
    /\ input' = [input EXCEPT !.ticks = @ + 1]
    /\ UNCHANGED <<cli, fetcher, worker, rxf, received, responded, main_pc,
                   appVars,
                    appended>>

(***************************************************************************)
(* Spec: the program.                                                      *)
(***************************************************************************)
\* main returns at once when nothing is configured.
Configurations ==
    {c \in [zio_zmx : BOOLEAN, jmx : BOOLEAN, akka : BOOLEAN] :
        c.zio_zmx \/ c.jmx \/ c.akka}

NoAppends == [w \in {"fiber_counts", "slick_metrics", "hikari_metrics"} |-> 0]

InitWith(c) ==
    /\ cli = c
    /\ fetcher = [result |-> None, constructions |-> 0]
    /\ worker = [pc |-> "new", req |-> "none"]
    /\ rxf = << >>
    /\ rx = << >>
    /\ input = [startup |-> StartupRequests(c), keys |-> 0, ticks |-> 0]
    /\ main_pc = "loop"
    /\ should_quit = App_new(c).should_quit
    /\ exit_reason = App_new(c).exit_reason
    /\ tabs = App_new(c).tabs
    /\ zmx = App_new(c).zmx
    /\ slick = App_new(c).slick
    /\ actor_tree = App_new(c).actor_tree
    /\ received = [k \in RequestKinds |-> 0]
    /\ responded = [k \in ResponseKinds |-> 0]
    /\ appended = NoAppends

Init == \E c \in Configurations : InitWith(c)

Next ==
    \/ FetcherNew
    \/ WorkerRecv
    \/ WorkerRespondOk
    \/ WorkerRespondErr
    \/ InputStartup
    \/ InputKey
    \/ InputTick
    \/ MainInput
    \/ MainResponse
    \/ MainTick

Spec == Init /\ [][Next]_vars

\* SpecLive: the dashboard of a pool source.  The main thread runs whenever
\* it has an event to take; nothing is assumed of the fetcher thread and of
\* the input thread, which may stop or take for ever over a fetch.
PoolConfigured == [zio_zmx |-> FALSE, jmx |-> TRUE, akka |-> FALSE]

SpecLive ==
    /\ InitWith(PoolConfigured)
    /\ [][Next]_vars
    /\ WF_vars(MainInput) /\ WF_vars(MainResponse) /\ WF_vars(MainTick)

(***************************************************************************)
(* SpecWindow: the append operations applied to the three windows, each    *)
(* sample tagged with its ordinal.                                         *)
(***************************************************************************)
TaggedFiberCount(n) == [done |-> n, suspended |-> 0, running |-> 0, finishing |-> 0]

AllConfigured == [zio_zmx |-> TRUE, jmx |-> TRUE, akka |-> TRUE]

InitWindow == InitWith(AllConfigured)

AppendFiberCount ==
    /\ appended.fiber_counts < MAX_FIBER_COUNT_MEASURES + ExtraAppends
    /\ zmx' = append_fiber_count(zmx, TaggedFiberCount(appended.fiber_counts + 1))
    /\ appended' = [appended EXCEPT !.fiber_counts = @ + 1]
    /\ UNCHANGED <<threadVars, main_pc, should_quit, exit_reason, tabs, slick,
                   actor_tree>>

AppendSlickMetrics ==
    /\ appended.slick_metrics < MAX_SLICK_MEASURES + ExtraAppends
    /\ slick' = append_slick_metrics(slick, SlickMetrics(appended.slick_metrics + 1))
    /\ appended' = [appended EXCEPT !.slick_metrics = @ + 1]
    /\ UNCHANGED <<threadVars, main_pc, should_quit, exit_reason, tabs, zmx,
                   actor_tree>>

AppendHikariMetrics ==
    /\ appended.hikari_metrics < MAX_HIKARI_MEASURES + ExtraAppends
    /\ slick' = append_hikari_metrics(slick, HikariMetrics(appended.hikari_metrics + 1))
    /\ appended' = [appended EXCEPT !.hikari_metrics = @ + 1]
    /\ UNCHANGED <<threadVars, main_pc, should_quit, exit_reason, tabs, zmx,
                   actor_tree>>

NextWindow == AppendFiberCount \/ AppendSlickMetrics \/ AppendHikariMetrics

SpecWindow == InitWindow /\ [][NextWindow]_vars

(***************************************************************************)
(* SpecNav: the main loop of a dashboard with the fiber and pool tabs.     *)
(* Keys arrive one at a time, in any order; each request the Enter key     *)
(* sends is answered with any full fiber dump.                             *)
(***************************************************************************)
NavConfigured == [zio_zmx |-> TRUE, jmx |-> TRUE, akka |-> FALSE]

InitNav == InitWith(NavConfigured)

\* A key event reaches the main loop.
Press ==
    /\ main_pc = "loop"
    /\ rx = << >>
    /\ \E code \in KeyCodes :
          /\ code = "Enter" => rxf = << >>
          /\ rx' = <<Input(code)>>
    /\ UNCHANGED <<cli, fetcher, worker, rxf, input, received, responded,
                   main_pc, appVars, appended>>

\* The response to the oldest request reaches the main loop.
Answer ==
    /\ main_pc = "loop"
    /\ rx = << >>
    /\ rxf # << >>
    /\ \E fd \in FiberDumps :
          rx' = <<FetcherResponse(respond_ok(Head(rxf), Ok(fd)))>>
    /\ rxf' = Tail(rxf)
    /\ UNCHANGED <<cli, fetcher, worker, input, received, responded, main_pc,
                   appVars, appended>>

NextNav == Press \/ Answer \/ MainInput \/ MainResponse

SpecNav == InitNav /\ [][NextNav]_vars

(***************************************************************************)
(* SpecKeys: the main loop of every configuration handling key events      *)
(* alone, one at a time and in any order; no request is answered.          *)
(***************************************************************************)
NextKeys == Press \/ MainInput

SpecKeys == Init /\ [][NextKeys]_vars

(***************************************************************************)
(* SpecTree: the first full fiber dump of the dashboard: Enter on the      *)
(* fiber tab, answered with any forest.                                    *)
(***************************************************************************)
PressEnter ==
    /\ main_pc = "loop"
    /\ rx = << >>
    /\ rxf = << >>
    /\ zmx = ZMXTab_new
    /\ rx' = <<Input("Enter")>>
    /\ UNCHANGED <<cli, fetcher, worker, rxf, input, received, responded,
                   main_pc, appVars, appended>>

AnswerForest ==
    /\ main_pc = "loop"
    /\ rx = << >>
    /\ rxf # << >>
    /\ \E fd \in Forests :
          rx' = <<FetcherResponse(respond_ok(Head(rxf), Ok(fd)))>>
    /\ rxf' = Tail(rxf)
    /\ UNCHANGED <<cli, fetcher, worker, input, received, responded, main_pc,
                   appVars, appended>>

NextTree == PressEnter \/ AnswerForest \/ MainInput \/ MainResponse

SpecTree == InitNav /\ [][NextTree]_vars

(***************************************************************************)
(* Properties.                                                             *)
(***************************************************************************)
ConstructionFailed == fetcher.result # None /\ ~Unwrap(fetcher.result).ok
ConstructionSucceeded == fetcher.result # None /\ Unwrap(fetcher.result).ok

\* The request the fetcher thread has taken and not yet answered.
InProgress(k) == IF worker.pc = "respond" /\ worker.req = k THEN 1 ELSE 0

\* The positions of rx that hold a response of the fetcher thread.
ResponsesInFlight == {i \in DOMAIN rx : rx[i].type = "FetcherResponse"}

\* C1: once Fetcher::new has failed, every request the fetcher thread takes,
\* whatever its kind, is answered by exactly one FatalFailure carrying the
\* construction error and never by a data response, and the fetcher is
\* constructed only once.
C1_DegradedMode ==
    ConstructionFailed =>
        /\ fetcher.constructions = 1
        /\ \A k \in RequestKinds : responded[k] = 0
        /\ responded["FatalFailure"]
             + (IF worker.pc = "respond" THEN 1 ELSE 0) = Sent(received)
        /\ \A i \in ResponsesInFlight :
              rx[i].r = FatalFailure(Unwrap(fetcher.result).value)

C1_Witness ==
    /\ ConstructionFailed
    /\ received["SlickConfig"] = 1
    /\ received["HikariMetrics"] = 1
    /\ responded["FatalFailure"] = 2
    /\ Len(rx) >= 2

\* C2: with a fetcher constructed, the fetcher thread holds one request at a
\* time and has sent, for every kind, exactly as many responses of that
\* variant as it has taken requests of that kind, less the one in progress;
\* it sends no FatalFailure.
C2_OneResponsePerRequest ==
    ConstructionSucceeded =>
        /\ \A k \in RequestKinds : responded[k] + InProgress(k) = received[k]
        /\ responded["FatalFailure"] = 0
        /\ \A i \in ResponsesInFlight : rx[i].r.kind \in RequestKinds

C2_Witness ==
    /\ ConstructionSucceeded
    /\ responded["SlickConfig"] = 1
    /\ responded["RegularFiberDump"] = 1
    /\ responded["ActorCount"] = 1
    /\ responded["FiberDump"] = 1

Windows == {"fiber_counts", "slick_metrics", "hikari_metrics"}

Window(w) ==
    CASE w = "fiber_counts" -> zmx.fiber_counts
      [] w = "slick_metrics" -> slick.slick_metrics
      [] w = "hikari_metrics" -> slick.hikari_metrics

MaxSize(w) ==
    CASE w = "fiber_counts" -> MAX_FIBER_COUNT_MEASURES
      [] w = "slick_metrics" -> MAX_SLICK_MEASURES
      [] w = "hikari_metrics" -> MAX_HIKARI_MEASURES

\* The n-th sample SpecWindow appends to window w.
Sample(w, n) ==
    CASE w = "fiber_counts" -> TaggedFiberCount(n)
      [] w = "slick_metrics" -> SlickMetrics(n)
      [] w = "hikari_metrics" -> HikariMetrics(n)

Min(x, y) == IF x <= y THEN x ELSE y

\* C3: no window is ever longer than max_size + 1, and after max_size + 2
\* appends to the empty window its length is exactly max_size + 1.
C3_WindowLength ==
    \A w \in Windows :
        /\ Len(Window(w)) <= MaxSize(w) + 1
        /\ appended[w] = MaxSize(w) + 2 => Len(Window(w)) = MaxSize(w) + 1

C3_Witness == \A w \in Windows : appended[w] = MaxSize(w) + 2

\* The window w holds the last min(n, max_size + 1) of the n samples
\* appended to it, oldest first.
HoldsLatest(w) ==
    LET n == appended[w]
        k == Min(n, MaxSize(w) + 1)
    IN  Window(w) = [i \in 1..k |-> Sample(w, n - k + i)]

\* C4: an append drops the oldest sample exactly when the length before it
\* exceeds max_size and then adds the new sample at the end: after n appends
\* the window holds the last min(n, max_size + 1) samples appended, oldest
\* first (nothing is dropped up to max_size + 1 appends, and from then on
\* each append drops exactly the oldest sample).
C4_WindowContent == \A w \in Windows : HoldsLatest(w)

C4_Witness ==
    /\ appended["fiber_counts"] = MAX_FIBER_COUNT_MEASURES + 3
    /\ Len(zmx.fiber_counts) = MAX_FIBER_COUNT_MEASURES + 1
    /\ Head(zmx.fiber_counts) = TaggedFiberCount(3)
    /\ appended["slick_metrics"] = MAX_SLICK_MEASURES + 3
    /\ Head(slick.slick_metrics) = SlickMetrics(3)

\* The main loop takes the next event: only it removes from rx.
MainStep == main_pc = "loop" /\ rx # << >> /\ rx' = Tail(rx)

RequiredKinds ==
    {"FiberDump", "RegularFiberDump", "SlickMetrics", "SlickConfig",
     "ActorTree", "ActorCount"}

IsFailure(ev, kinds) ==
    ev.type = "FetcherResponse" /\ ev.r.kind \in kinds /\ ~ev.r.d.ok

\* C5: when the main loop takes a FatalFailure, or a failed result of a
\* request to a required source, it sets should_quit, records that error as
\* exit_reason and leaves the loop, and no tab state is changed by the event.
C5_FatalFailureQuits ==
    [][ MainStep /\ IsFailure(Head(rx), RequiredKinds \cup {"FatalFailure"}) =>
           /\ should_quit'
           /\ exit_reason' = Some(Head(rx).r.d.value)
           /\ main_pc' = "exited"
           /\ UNCHANGED <<zmx, slick, actor_tree, tabs>> ]_vars

C5_Witness ==
    /\ main_pc = "exited"
    /\ should_quit
    /\ exit_reason = Some("fetch failed")
    /\ Len(slick.slick_metrics) = MAX_SLICK_MEASURES + 1
    /\ received["SlickMetrics"] = 2

\* C6: when the main loop takes a failed HikariMetrics response, it sets
\* has_hikari to false and nothing else: should_quit stays false, no
\* exit_reason is recorded, the loop goes on, and the metric windows and
\* every other tab state are unchanged.
C6_HikariFailureDegrades ==
    [][ MainStep /\ IsFailure(Head(rx), {"HikariMetrics"}) =>
           /\ slick' = [slick EXCEPT !.has_hikari = FALSE]
           /\ ~should_quit'
           /\ exit_reason' = None
           /\ main_pc' = "loop"
           /\ UNCHANGED <<zmx, actor_tree, tabs, rxf>> ]_vars

C6_Witness ==
    /\ main_pc = "loop"
    /\ ~slick.has_hikari
    /\ Len(slick.hikari_metrics) = 1
    /\ responded["HikariMetrics"] = 2
    /\ \A i \in ResponsesInFlight : rx[i].r.kind # "HikariMetrics"

IsKey(ev, codes) == ev.type = "Input" /\ ev.code \in codes

IsFullDump(ev) ==
    ev.type = "FetcherResponse" /\ ev.r.kind = "FiberDump" /\ ev.r.d.ok

Labels(fd) == [i \in DOMAIN printable_tree(fd) |-> printable_tree(fd)[i].label]
Dumps(fd) == [i \in DOMAIN printable_tree(fd) |-> printable_tree(fd)[i].fiber.dump]

\* C7: handling a successful full fiber dump replaces the fiber list and the
\* dump texts by those of the new dump and sets both the selection and the
\* scroll offset to 0, whatever they were before.
C7_FullDumpResets ==
    [][ MainStep /\ IsFullDump(Head(rx)) =>
           /\ zmx'.fibers.items = Labels(Head(rx).r.d.value)
           /\ zmx'.fiber_dump_all = Dumps(Head(rx).r.d.value)
           /\ zmx'.fibers.selected = 0
           /\ zmx'.scroll = 0 ]_vars

\* C8: an Up or Down key on the fiber tab while its list is empty does not
\* fail and leaves the selection at 0.
C8_EmptyListNavigationClamped ==
    [][ /\ MainStep
        /\ IsKey(Head(rx), {"Up", "Down"})
        /\ current(tabs) = "ZMX"
        /\ zmx.fibers.items = << >>
        => /\ main_pc' # "panicked"
           /\ zmx'.fibers.selected = 0 ]_vars

\* C9: on a non-empty fiber list, Down at the last item and Up at the first
\* leave the selection where it is, any other Up or Down moves it by exactly
\* one without failing, and the selection is an index of the list after
\* every step.
C9_SelectionClamped ==
    [][ /\ ( /\ MainStep
             /\ IsKey(Head(rx), {"Up", "Down"})
             /\ current(tabs) = "ZMX"
             /\ zmx.fibers.items # << >>
             => /\ main_pc' = "loop"
                /\ zmx'.fibers.items = zmx.fibers.items
                /\ zmx'.fibers.selected =
                      IF Head(rx).code = "Down"
                      THEN IF zmx.fibers.selected = Len(zmx.fibers.items) - 1
                           THEN zmx.fibers.selected
                           ELSE zmx.fibers.selected + 1
                      ELSE IF zmx.fibers.selected = 0
                           THEN 0
                           ELSE zmx.fibers.selected - 1 )
        /\ ( zmx'.fibers.items # << >> =>
                /\ 0 <= zmx'.fibers.selected
                /\ zmx'.fibers.selected < Len(zmx'.fibers.items) ) ]_vars

\* Down has moved the selection to the last of three fibers.
C9_Witness ==
    /\ main_pc = "loop"
    /\ Len(zmx.fibers.items) = 3
    /\ zmx.fibers.selected = 2
    /\ zmx.selected_fiber_dump = prepare_dump(FixtureDump[3].dump)
    /\ zmx.scroll = 0

\* C10: the scroll offset lies within [0, content_height], content_height
\* being the number of lines of the dump displayed.
C10_ScrollWithinContent ==
    /\ 0 <= zmx.scroll
    /\ zmx.scroll <= LineCount(zmx.selected_fiber_dump[1])

\* C11: a Right key on the last tab selects the first tab and otherwise moves
\* the active tab index up by one; a Left key on the first tab selects the
\* last tab and otherwise moves the index down by one; the tab list never
\* changes and the index is an index of it after every step.
C11_TabsWrapAround ==
    [][ /\ ( MainStep /\ IsKey(Head(rx), {"Right"}) =>
                tabs'.index = IF tabs.index = Len(tabs.tabs) - 1
                              THEN 0 ELSE tabs.index + 1 )
        /\ ( MainStep /\ IsKey(Head(rx), {"Left"}) =>
                tabs'.index = IF tabs.index = 0
                              THEN Len(tabs.tabs) - 1 ELSE tabs.index - 1 )
        /\ tabs'.tabs = tabs.tabs
        /\ tabs'.index \in 0..(Len(tabs'.tabs) - 1) ]_vars

\* The last of three tabs is active, a Left key waiting to be handled.
C11_Witness ==
    /\ main_pc = "loop"
    /\ Len(tabs.tabs) = 3
    /\ current(tabs) = "AkkaActorTree"
    /\ rx = <<Input("Left")>>

\* The refresh request of kind k is due on a tick in the current state.
RefreshDue(k) ==
    CASE k = "RegularFiberDump" -> cli.zio_zmx
      [] k = "SlickMetrics" -> cli.jmx
      [] k = "HikariMetrics" -> cli.jmx /\ slick.has_hikari
      [] k = "ActorCount" -> cli.akka
      [] OTHER -> FALSE

\* C12: when the main loop takes a Tick it appends to the request queue
\* exactly one request of each refresh kind that is due (RegularFiberDump
\* with a fiber source, SlickMetrics with a pool source, HikariMetrics with a
\* pool source whose has_hikari is true at that moment, ActorCount with an
\* actor source) and nothing else, and changes no application state.
C12_TickRequests ==
    [][ MainStep /\ Head(rx).type = "Tick" =>
           /\ rxf' = rxf \o SelectSeq(<<"RegularFiberDump", "SlickMetrics",
                                         "HikariMetrics", "ActorCount">>,
                                       RefreshDue)
           /\ main_pc' = "loop"
           /\ UNCHANGED appVars ]_vars

\* Two ticks were handled with every source configured, the first with
\* has_hikari false and the second with has_hikari true.
C12_Witness ==
    /\ cli = AllConfigured
    /\ slick.has_hikari
    /\ input.ticks = 2
    /\ rx = << >>
    /\ received["SlickMetrics"] + Len(SelectSeq(rxf, LAMBDA k : k = "SlickMetrics")) = 3
    /\ received["HikariMetrics"] + Len(SelectSeq(rxf, LAMBDA k : k = "HikariMetrics")) = 2
    /\ Len(SelectSeq(rxf, LAMBDA k : k = "ActorCount")) = 2
    /\ Len(SelectSeq(rxf, LAMBDA k : k = "ActorTree")) = 0

\* C13: when the main loop takes an Enter key it appends one FiberDump
\* request on the fiber tab, one ActorTree request on the actor tab and
\* nothing on the pool tab; it changes no application state, constructs no
\* fetcher or connection and goes on.
C13_EnterByTab ==
    [][ MainStep /\ IsKey(Head(rx), {"Enter"}) =>
           /\ rxf' = rxf \o ( CASE current(tabs) = "ZMX" -> <<"FiberDump">>
                                [] current(tabs) = "AkkaActorTree" -> <<"ActorTree">>
                                [] current(tabs) = "Slick" -> << >> )
           /\ main_pc' = "loop"
           /\ UNCHANGED <<appVars, fetcher, worker>> ]_vars

\* Enter was handled on the actor tab, the third of three tabs.
C13_Witness ==
    /\ main_pc = "loop"
    /\ current(tabs) = "AkkaActorTree"
    /\ tabs.index = 2
    /\ rxf = <<"ActorTree">>
    /\ rx = << >>

\* The number of requests of kind k in a queue of requests.
Requests(q, k) == Len(SelectSeq(q, LAMBDA r : r = k))

\* has_hikari is false and no HikariMetrics request or response is pending:
\* the start-up request was sent, the request queue holds none, the fetcher
\* thread is not serving one and the event queue holds no response to one.
HikariQuiet ==
    /\ ~slick.has_hikari
    /\ Requests(input.startup, "HikariMetrics") = 0
    /\ Requests(rxf, "HikariMetrics") = 0
    /\ ~(worker.pc = "respond" /\ worker.req = "HikariMetrics")
    /\ \A i \in ResponsesInFlight : rx[i].r.kind # "HikariMetrics"

\* C14: a HikariMetrics request is enqueued only by the start-up block (once)
\* and by a tick handled while has_hikari is true; and once has_hikari is
\* false with no HikariMetrics request or response pending, this stays so
\* after every step: no tick enqueues the request and has_hikari stays false.
C14_HikariNotReprobed ==
    [][ /\ ( Requests(rxf', "HikariMetrics") > Requests(rxf, "HikariMetrics") =>
                \/ /\ input.startup # << >>
                   /\ Head(input.startup) = "HikariMetrics"
                   /\ input'.startup = Tail(input.startup)
                   /\ Requests(StartupRequests(cli), "HikariMetrics") = 1
                \/ MainStep /\ Head(rx).type = "Tick" /\ slick.has_hikari )
        /\ ( HikariQuiet => HikariQuiet' ) ]_vars

\* The start-up probe has failed and a tick was handled after it.
C14_Witness ==
    /\ cli.jmx
    /\ HikariQuiet
    /\ main_pc = "loop"
    /\ responded["HikariMetrics"] = 1
    /\ input.ticks = 1
    /\ rx = << >>
    /\ received["SlickMetrics"] + Requests(rxf, "SlickMetrics") = 2

\* The window of zero-valued samples the pool monitor is seeded with.
ZeroSamples == [i \in 1..MAX_SLICK_MEASURES |-> SlickMetrics_ZERO]

\* C15: the Slick metrics window is empty until the pool configuration has
\* arrived and then holds MAX_SLICK_MEASURES zero-valued samples; once the
\* first real sample (the answer to the start-up SlickMetrics request, the
\* third response of the fetcher thread) has been appended, and before any
\* other, it holds the zero-valued samples followed by that sample.
C15_SeededWindow ==
    /\ appended["slick_metrics"] = 0 => slick.slick_metrics \in {<< >>, ZeroSamples}
    /\ appended["slick_metrics"] = 1 =>
           /\ slick.slick_metrics = ZeroSamples \o <<SlickMetrics(3)>>
           /\ Len(slick.slick_metrics) = MAX_SLICK_MEASURES + 1
           /\ SlickMetrics(3) # SlickMetrics_ZERO

\* The first real sample is in the window and a tick has been handled, its
\* SlickMetrics request not yet answered.
C15_Witness ==
    /\ appended["slick_metrics"] = 1
    /\ slick.slick_config = SlickConfig(1000, 20)
    /\ slick.slick_metrics[MAX_SLICK_MEASURES + 1] = SlickMetrics(3)
    /\ input.ticks = 1
    /\ rx = << >>
    /\ received["SlickMetrics"] = 2

\* The diagnostic SlickTab::initialize records when the configuration fetch
\* fails.
NO_SLICK_METRICS == "No slick jmx metrics found. Are you sure you have registerMbeans=true in your slick config?"

\* C16: when the main loop takes a failed SlickConfig response the pool
\* monitor records its fixed diagnostic and the dashboard keeps running
\* (no quit, no exit); and while the diagnostic is set no step appends a
\* sample to the Slick metrics window.
C16_ConfigFailureKeepsRunning ==
    [][ /\ ( MainStep /\ IsFailure(Head(rx), {"SlickConfig"}) =>
                /\ slick'.slick_error = Some(NO_SLICK_METRICS)
                /\ slick'.slick_metrics = slick.slick_metrics
                /\ ~should_quit'
                /\ main_pc' = "loop" )
        /\ ( slick.slick_error # None =>
                slick'.slick_metrics = slick.slick_metrics ) ]_vars

\* The positions in fd of the siblings of the fiber at position i: the
\* fibers with the same parent, or the roots.
SiblingPos(fd, i) == {k \in DOMAIN fd : ParentPos(fd, k) = ParentPos(fd, i)}

HasLaterSibling(fd, i) == \E k \in SiblingPos(fd, i) : k > i

\* The path of the fiber at position i: from its root down, the rank of
\* each fiber among its siblings in input order.
RECURSIVE PathOf(_, _)
PathOf(fd, i) ==
    IF i = 0 THEN << >>
    ELSE PathOf(fd, ParentPos(fd, i))
         \o <<Cardinality({k \in SiblingPos(fd, i) : k <= i})>>

\* p comes before q in pre-order: p is a proper prefix of q, or p is smaller
\* at the first place where they differ.
PreOrderBefore(p, q) ==
    \E n \in 1..Len(q) :
        /\ \A m \in 1..(n - 1) : m <= Len(p) /\ p[m] = q[m]
        /\ n > Len(p) \/ p[n] < q[n]

\* The tree art of the fiber at position i: a bar or a blank per ancestor,
\* from the root down, then a branch or a corner.
RECURSIVE AncestorArt(_, _)
AncestorArt(fd, i) ==
    IF ParentPos(fd, i) = 0 THEN << >>
    ELSE AncestorArt(fd, ParentPos(fd, i))
         \o (IF HasLaterSibling(fd, ParentPos(fd, i))
             THEN <<"|", " ">> ELSE <<" ", " ">>)

TreeArt(fd, i) ==
    AncestorArt(fd, i)
    \o (IF HasLaterSibling(fd, i) THEN <<"+", "-">> ELSE <<"L", "-">>)

\* The line is the cells, then blanks only, then the status label.
IsLineOf(line, cells, status) ==
    /\ Len(line) > Len(cells)
    /\ SubSeq(line, 1, Len(cells)) = cells
    /\ \A m \in (Len(cells) + 1)..(Len(line) - 1) : line[m] = " "
    /\ line[Len(line)] = status

\* The position in fd of the fiber whose dump text is d.
PosOfDump(fd, d) == CHOOSE i \in DOMAIN fd : fd[i].dump = d

\* The lines of the test zmx_tab_dumps_fibers.
FixtureLines ==
    << <<"+", "-", "#", "1", " ", " ", " ", " ", " ", " ", " ", " ", " ", "Running">>,
       <<"|", " ", "L", "-", "#", "2", " ", " ", " ", " ", " ", " ", " ", "Suspended">>,
       <<"L", "-", "#", "4", " ", " ", " ", " ", " ", " ", " ", " ", " ", "Done">> >>

\* C17: a full dump of a non-empty forest fd leaves one line and one dump
\* text per fiber, in pre-order (roots, the fibers whose parent is absent or
\* not in fd, in input order; the children of a fiber in input order before
\* its next sibling); the line of a fiber is a bar or a blank per ancestor,
\* a branch if it has a later sibling and a corner if not, '#' and its id,
\* blanks, and its status.  For the fibers 1, 2 (child of 1), 4 the lines
\* are those of the test and the dump texts are 1, 2, 4.
C17_TreePreOrder ==
    [][ MainStep /\ IsFullDump(Head(rx)) /\ Head(rx).r.d.value # << >> =>
          LET fd == Head(rx).r.d.value
              lines == zmx'.fibers.items
              dumps == zmx'.fiber_dump_all
              pos == [k \in DOMAIN dumps |-> PosOfDump(fd, dumps[k])]
          IN  /\ Len(lines) = Len(fd)
              /\ Len(dumps) = Len(fd)
              /\ \A k \in DOMAIN dumps : \E i \in DOMAIN fd : fd[i].dump = dumps[k]
              /\ \A k, l \in DOMAIN dumps :
                    k < l => PreOrderBefore(PathOf(fd, pos[k]), PathOf(fd, pos[l]))
              /\ \A k \in DOMAIN lines :
                    IsLineOf(lines[k],
                             TreeArt(fd, pos[k]) \o <<"#">> \o Digits(fd[pos[k]].id),
                             fd[pos[k]].status)
              /\ fd = FixtureDump =>
                    /\ lines = FixtureLines
                    /\ dumps = << <<"1">>, <<"2">>, <<"4">> >> ]_vars

\* Three fibers fetched in the order 3, 1, 2, the fiber 2 a child of 3 and
\* the fiber 1 a root, are listed in the order 3, 2, 1.
C17_Witness ==
    /\ main_pc = "loop"
    /\ zmx.fiber_dump_all = << <<"3">>, <<"2">>, <<"1">> >>
    /\ zmx.fibers.items[1][1] = "+"
    /\ zmx.fibers.items[2] = <<"|", " ", "L", "-", "#", "2", " ", " ", " ",
                                " ", " ", " ", " ", StatusOf(2)>>
    /\ zmx.fibers.items[3][1] = "L"

\* C18: in every line of a full dump the tree art and the display string
\* '#' id take exactly LABEL_WIDTH cells, blanks included, and the status
\* label is the next one.
C18_LabelAtColumn14 ==
    [][ MainStep /\ IsFullDump(Head(rx)) =>
          \A k \in DOMAIN zmx'.fibers.items :
              LET line == zmx'.fibers.items[k]
                  f == Head(rx).r.d.value[PosOfDump(Head(rx).r.d.value,
                                                    zmx'.fiber_dump_all[k])]
              IN  /\ Len(line) = LABEL_WIDTH + 1
                  /\ line[LABEL_WIDTH + 1] = f.status ]_vars

\* C19: the step that handles the quit key or sets the quit flag ends the
\* main loop, sends no request and leaves the fetcher thread and the request
\* queue as they are (a fetch in progress is not cancelled); and once the
\* loop has ended or the flag is set, no request is sent, no event is taken
\* and the application state never changes again, whatever is still in the
\* event queue.
C19_QuitStopsController ==
    [][ /\ ( MainStep /\ (IsKey(Head(rx), {"q"}) \/ should_quit') =>
                /\ main_pc' = "exited"
                /\ UNCHANGED <<rxf, worker, fetcher>> )
        /\ ( MainStep /\ IsKey(Head(rx), {"q"}) => UNCHANGED appVars )
        /\ ( main_pc = "exited" \/ should_quit =>
                /\ UNCHANGED <<appVars, main_pc>>
                /\ Len(rx') >= Len(rx)
                /\ Len(rxf') <= Len(rxf) ) ]_vars

\* The quit key was handled while a fetch was in progress, a request was
\* queued behind it and a response was waiting in the event queue.
C19_Witness ==
    /\ main_pc = "exited"
    /\ ~should_quit
    /\ worker.pc = "respond"
    /\ rxf # << >>
    /\ ResponsesInFlight # {}
    /\ slick = SlickTab_new

\* C20: whatever the fetcher thread does and however long a fetch takes,
\* the main loop takes every event waiting in the event queue, unless the
\* loop ends before; a step of the main loop that sends requests only appends
\* them to the request queue; and a response is sent only for the one request
\* the fetcher thread has taken, the requests in the queue waiting behind it.
C20_ControllerNeverWaits ==
    /\ (rx # << >>) ~> (rx = << >> \/ main_pc # "loop")
    /\ [][ /\ ( MainStep => /\ Len(rxf') >= Len(rxf)
                           /\ SubSeq(rxf', 1, Len(rxf)) = rxf )
           /\ ( responded' # responded =>
                    /\ worker.pc = "respond"
                    /\ worker'.pc = "recv"
                    /\ rxf' = rxf
                    /\ rx' = Append(rx, rx'[Len(rx')])
                    /\ rx'[Len(rx')].type = "FetcherResponse"
                    /\ rx'[Len(rx')].r.kind \in {worker.req, "FatalFailure"} ) ]_vars

\* The first fetch is still in progress, the other start-up requests and
\* those of a tick are queued behind it, and every key and tick sent so far
\* has been handled.
C20_Witness ==
    /\ main_pc = "loop"
    /\ worker.pc = "respond"
    /\ worker.req = "SlickConfig"
    /\ Sent(responded) = 0
    /\ input.ticks >= 1
    /\ input.keys >= 1
    /\ rx = << >>
    /\ Requests(rxf, "HikariMetrics") = 1
    /\ Requests(rxf, "SlickMetrics") >= 2

\* C21: the application state (windows, fiber list, selection, scroll,
\* has_hikari, quit flag, exit message, tabs) changes only in a step of the
\* main loop; a step of the fetcher thread or of the input thread leaves it
\* and the position of the main loop unchanged and at most appends one
\* message to the event queue or to the request queue; and an exit message
\* is only ever the error carried by a failed response the main loop takes.
C21_OnlyControllerMutates ==
    [][ /\ ( appVars' # appVars => MainStep )
        /\ ( worker' # worker \/ input' # input \/ fetcher' # fetcher =>
                /\ UNCHANGED <<appVars, main_pc>>
                /\ rx' = rx \/ (Len(rx') = Len(rx) + 1 /\ rx' = Append(rx, rx'[Len(rx')]))
                /\ \/ rxf' = rxf
                   \/ input' # input /\ Len(rxf') = Len(rxf) + 1
                                     /\ rxf' = Append(rxf, rxf'[Len(rxf')])
                   \/ worker' # worker /\ rxf # << >> /\ rxf' = Tail(rxf) )
        /\ ( exit_reason' # exit_reason =>
                /\ MainStep
                /\ Head(rx).type = "FetcherResponse"
                /\ ~Head(rx).r.d.ok
                /\ exit_reason' = Some(Head(rx).r.d.value) ) ]_vars

\* The fetcher thread has sent a failed response and a data response, and
\* the application state is still that of construction.
C21_Witness ==
    /\ main_pc = "loop"
    /\ app = App_new(cli)
    /\ ConstructionSucceeded
    /\ \E i \in ResponsesInFlight : ~rx[i].r.d.ok
    /\ \E i \in ResponsesInFlight : rx[i].r.d.ok
    /\ input.ticks >= 1

\* The requests sent so far that the fetcher thread has not yet taken,
\* followed by the start-up requests still to be sent.
PendingStartup == rxf \o input.startup

\* C22: with a pool source, until the start-up block has sent SlickConfig,
\* HikariMetrics and SlickMetrics, in this order, no key or tick has been
\* emitted and nothing else has been requested; and when the main loop
\* takes a SlickMetrics or HikariMetrics response, the SlickConfig response
\* has been sent and taken before.
C22_ConfigHandledFirst ==
    /\ [][ MainStep /\ Head(rx).type = "FetcherResponse"
               /\ Head(rx).r.kind \in {"SlickMetrics", "HikariMetrics"} =>
               /\ responded["SlickConfig"] >= 1
               /\ \A i \in ResponsesInFlight : rx[i].r.kind # "SlickConfig" ]_vars
    /\ [][ input'.startup # << >> =>
               /\ input'.keys = 0 /\ input'.ticks = 0
               /\ \A i \in DOMAIN rx' : rx'[i].type = "FetcherResponse"
               /\ \E n \in 0..2 :
                     PendingStartup' = SubSeq(StartupRequests(cli), n + 1, 3) ]_vars

\* Both start-up metrics responses were handled after the configuration.
C22_Witness ==
    /\ main_pc = "loop"
    /\ slick.has_hikari
    /\ appended["hikari_metrics"] = 1
    /\ appended["slick_metrics"] = 1
    /\ responded["SlickConfig"] = 1
    /\ rx = << >>

\* C23: the fiber list and the dump texts have the same length, and when
\* the list is not empty the selection is an index of it and the dump
\* displayed is the dump text at the selection.
C23_ListAndDumpsAligned ==
    /\ Len(zmx.fibers.items) = Len(zmx.fiber_dump_all)
    /\ zmx.fibers.items # << >> =>
          /\ zmx.fibers.selected \in 0..(Len(zmx.fibers.items) - 1)
          /\ zmx.selected_fiber_dump =
                prepare_dump(zmx.fiber_dump_all[zmx.fibers.selected + 1])

\* The same while the main loop runs.
Aligned_WhileRunning == main_pc = "loop" => C23_ListAndDumpsAligned

====
